---------------------------- MODULE Spec2Model ----------------------------
(***************************************************************************)
(* Model of the Twitch MCP server configuration pipeline                   *)
(* (src/mcp_twitch_server.py): the Document Normalizer                     *)
(* (_load_openapi_spec / _fix_schema_types), the Capability Router rule    *)
(* list (_create_route_maps), the Transformation Table                     *)
(* (_create_tool_transformations) and the registry construction of         *)
(* create_server.                                                          *)
(*                                                                         *)
(* Three specifications share the module:                                  *)
(*   SpecRouter      one operation descriptor routed through the rule list *)
(*   SpecNormalizer  one API-description document normalized               *)
(*   Spec            create_server building the registry                   *)
(***************************************************************************)
EXTENDS Integers, Sequences, FiniteSets, TLC

VARIABLES
    pc,                      \* position in the pipeline being modelled
    automation_mode,         \* create_server argument
    include_tags,            \* create_server argument (<< >> models None / [])
    exclude_tags,            \* create_server argument (<< >> models None / [])
    enable_transformations,  \* create_server argument
    route_maps,              \* list returned by _create_route_maps
    route,                   \* SpecRouter: the descriptor being routed
    rule_index,              \* SpecRouter: next rule of route_maps to evaluate
    mcp_type,                \* SpecRouter: outcome so far
    openapi_spec,            \* SpecNormalizer: the document (self.openapi_spec)
    raw_spec,                \* SpecNormalizer: the document as read from disk
    operations,              \* Spec: operation ids present in the document
    tools,                   \* Spec: registry of tools, name -> [enabled, fn]
    resources,               \* Spec: operation ids generated as resources
    transformations,         \* Spec: the Transformation Table in effect
    todo,                    \* Spec: Transformation Table keys still to apply
    transformed,             \* Spec: keys reported "Transformed tool"
    warnings,                \* Spec: keys reported "Could not transform tool"
    access_token,            \* whether self.access_token is set
    upstream,                \* the upstream API: endpoint -> responses it may give
    task,                    \* handler invocations: task id -> locals and result
    entry,                   \* the entry point the process was started from
    transport,               \* the transport selected (--transport / $TRANSPORT)
    serving,                 \* the transport run_async was started on, or "none"
    health                   \* the mode /health reports, or "none" if not registered

vars == << pc, automation_mode, include_tags, exclude_tags,
           enable_transformations, route_maps, route, rule_index, mcp_type,
           openapi_spec, raw_spec, operations, tools, resources,
           transformations, todo, transformed, warnings,
           access_token, upstream, task, entry, transport, serving, health >>

Range(s) == { s[i] : i \in DOMAIN s }

(***************************************************************************)
(* Bounds and input universes                                              *)
(***************************************************************************)
\* longest --include-tags / --exclude-tags list enumerated
MaxTagList == 2

\* tag names that the tag lists and the descriptors draw from
Tags == {"users", "search"}

TagLists == UNION { [1..n -> Tags] : n \in 0..MaxTagList }

AllMethods == {"GET", "POST", "DELETE"}

(***************************************************************************)
(* RouteMap: a routing rule.  methods defaults to every method, pattern to *)
(* r".*", tags to the empty set.  A path is the sequence of its segments;  *)
(* a pattern is one of                                                     *)
(*    r".*"          [kind |-> "any",   path |-> << >>]                    *)
(*    r"^/a/b$"      [kind |-> "exact", path |-> <<"a","b">>]              *)
(*    r"^/a/.*"      [kind |-> "under", path |-> <<"a">>]                  *)
(***************************************************************************)
AnyPath == [kind |-> "any", path |-> << >>]
Exact(p) == [kind |-> "exact", path |-> p]
Under(p) == [kind |-> "under", path |-> p]

RouteMap(ms, pat, tgs, type) ==
    [methods |-> ms, pattern |-> pat, tags |-> tgs, mcp_type |-> type]

PatternMatches(pat, path) ==
    CASE pat.kind = "any"   -> TRUE
      [] pat.kind = "exact" -> path = pat.path
      [] pat.kind = "under" -> /\ Len(path) > Len(pat.path)
                               /\ SubSeq(path, 1, Len(pat.path)) = pat.path

\* a rule's predicate: method, path pattern, and every tag of the rule
RuleMatches(rule, d) ==
    /\ d.method \in rule.methods
    /\ PatternMatches(rule.pattern, d.path)
    /\ rule.tags \subseteq d.tags

\* one step of the ordered evaluation: a matching rule overwrites the outcome
ApplyRule(outcome, rule, d) ==
    IF RuleMatches(rule, d) THEN rule.mcp_type ELSE outcome

DefaultType == "TOOL"

\* the outcome of a descriptor after the first n rules, in list order
RECURSIVE EvaluateUpTo(_, _, _)
EvaluateUpTo(rules, d, n) ==
    IF n = 0 THEN DefaultType
    ELSE ApplyRule(EvaluateUpTo(rules, d, n - 1), rules[n], d)

DetermineRouteType(rules, d) == EvaluateUpTo(rules, d, Len(rules))

(***************************************************************************)
(* _create_route_maps                                                      *)
(***************************************************************************)
\* mutant of the automation rule list: GET /users generated as an action
AutomationRouteMaps_UsersAsTool ==
    << RouteMap(AllMethods, AnyPath, {}, "EXCLUDE"),
       RouteMap({"GET", "POST"}, Exact(<<"clips">>), {}, "TOOL"),
       RouteMap({"GET", "DELETE"}, Exact(<<"videos">>), {}, "TOOL"),
       RouteMap({"GET"}, Exact(<<"search", "channels">>), {}, "RESOURCE"),
       RouteMap({"GET"}, Exact(<<"search", "categories">>), {}, "RESOURCE"),
       RouteMap({"GET"}, Exact(<<"streams">>), {}, "RESOURCE"),
       RouteMap({"GET"}, Exact(<<"users">>), {}, "TOOL"),
       RouteMap({"GET"}, Exact(<<"games">>), {}, "RESOURCE"),
       RouteMap({"GET"}, Exact(<<"games", "top">>), {}, "RESOURCE") >>

AutomationRouteMaps ==
    << RouteMap(AllMethods, AnyPath, {}, "EXCLUDE"),
       RouteMap({"GET", "POST"}, Exact(<<"clips">>), {}, "TOOL"),
       RouteMap({"GET", "DELETE"}, Exact(<<"videos">>), {}, "TOOL"),
       RouteMap({"GET"}, Exact(<<"search", "channels">>), {}, "RESOURCE"),
       RouteMap({"GET"}, Exact(<<"search", "categories">>), {}, "RESOURCE"),
       RouteMap({"GET"}, Exact(<<"streams">>), {}, "RESOURCE"),
       RouteMap({"GET"}, Exact(<<"users">>), {}, "RESOURCE"),
       RouteMap({"GET"}, Exact(<<"games">>), {}, "RESOURCE"),
       RouteMap({"GET"}, Exact(<<"games", "top">>), {}, "RESOURCE") >>

ExcludeTagRules(exc) ==
    [ i \in 1..Len(exc) |-> RouteMap(AllMethods, AnyPath, {exc[i]}, "EXCLUDE") ]

ExcludeAllRule == RouteMap(AllMethods, AnyPath, {}, "EXCLUDE")

IncludeTagRules(inc) ==
    IF inc = << >> THEN << >>
    ELSE << ExcludeAllRule >> \o
         [ i \in 1..Len(inc) |-> RouteMap(AllMethods, AnyPath, {inc[i]}, "TOOL") ]

OverrideRules ==
    << RouteMap({"GET"}, Under(<<"search">>), {}, "RESOURCE"),
       RouteMap({"GET"}, Under(<<"analytics">>), {}, "RESOURCE") >>

\* mutants of _create_route_maps
CreateRouteMaps_NoExcludeAll(inc, exc, auto) ==
    IF auto THEN AutomationRouteMaps
    ELSE ExcludeTagRules(exc)
         \o [ i \in 1..Len(inc) |-> RouteMap(AllMethods, AnyPath, {inc[i]}, "TOOL") ]
         \o OverrideRules

CreateRouteMaps_OverridesFirst(inc, exc, auto) ==
    IF auto THEN AutomationRouteMaps
    ELSE OverrideRules \o ExcludeTagRules(exc) \o IncludeTagRules(inc)

CreateRouteMaps_ExcludeTagsAfterInclude(inc, exc, auto) ==
    IF auto THEN AutomationRouteMaps
    ELSE IncludeTagRules(inc) \o ExcludeTagRules(exc) \o OverrideRules

CreateRouteMaps_OverridesAsTools(inc, exc, auto) ==
    IF auto THEN AutomationRouteMaps
    ELSE ExcludeTagRules(exc) \o IncludeTagRules(inc)
         \o << RouteMap({"GET"}, Under(<<"search">>), {}, "TOOL"),
               RouteMap({"GET"}, Under(<<"analytics">>), {}, "TOOL") >>

CreateRouteMaps_OverridesAnyMethod(inc, exc, auto) ==
    IF auto THEN AutomationRouteMaps
    ELSE ExcludeTagRules(exc) \o IncludeTagRules(inc)
         \o << RouteMap(AllMethods, Under(<<"search">>), {}, "RESOURCE"),
               RouteMap(AllMethods, Under(<<"analytics">>), {}, "RESOURCE") >>

CreateRouteMaps(inc, exc, auto) ==
    IF auto THEN AutomationRouteMaps
    ELSE ExcludeTagRules(exc) \o IncludeTagRules(inc) \o OverrideRules

(***************************************************************************)
(* SpecRouter: the rule list is built from the arguments and one operation *)
(* descriptor is evaluated against it, one rule per step, in list order.   *)
(***************************************************************************)
Paths ==
    { <<"users">>, <<"clips">>, <<"videos">>, <<"search">>,
      <<"search", "channels">>, <<"analytics", "extensions">> }

\* descriptors: HTTP method, path, declared tags
Routes == [method : AllMethods, path : Paths, tags : SUBSET Tags]

NoDocument == [str |-> "-"]

routerVars == << route, rule_index, mcp_type >>
normalizerVars == << openapi_spec, raw_spec >>
registryVars == << operations, tools, resources, transformations, todo,
                   transformed, warnings >>
argVars == << automation_mode, include_tags, exclude_tags, enable_transformations >>
envVars == << access_token, upstream, entry, transport >>
serviceVars == << task, serving, health >>

\* no handler is invoked and nothing is served in the specifications of the
\* router, the normalizer and create_server
NoService ==
    /\ access_token = FALSE
    /\ upstream = << >>
    /\ task = << >>
    /\ entry = "main"
    /\ transport = "stdio"
    /\ serving = "none"
    /\ health = "none"

InitRouter ==
    /\ pc = "start"
    /\ automation_mode \in BOOLEAN
    /\ include_tags \in TagLists
    /\ exclude_tags \in TagLists
    /\ enable_transformations = TRUE
    /\ route_maps = << >>
    /\ route \in Routes
    /\ rule_index = 0
    /\ mcp_type = DefaultType
    /\ openapi_spec = NoDocument
    /\ raw_spec = NoDocument
    /\ operations = {}
    /\ tools = << >>
    /\ resources = {}
    /\ transformations = << >>
    /\ todo = << >>
    /\ transformed = {}
    /\ warnings = {}
    /\ NoService

\* route_maps = self._create_route_maps(include_tags, exclude_tags, automation_mode)
RouterCreateRouteMaps ==
    /\ pc = "start"
    /\ route_maps' = CreateRouteMaps(include_tags, exclude_tags, automation_mode)
    /\ rule_index' = 1
    /\ pc' = "eval"
    /\ UNCHANGED << argVars, envVars, serviceVars, route, mcp_type, normalizerVars, registryVars >>

\* the next rule of the list is tried on the descriptor
EvalRule ==
    /\ pc = "eval"
    /\ rule_index <= Len(route_maps)
    /\ mcp_type' = ApplyRule(mcp_type, route_maps[rule_index], route)
    /\ rule_index' = rule_index + 1
    /\ UNCHANGED << pc, argVars, envVars, serviceVars, route_maps, route, normalizerVars, registryVars >>

\* every rule has been tried: the outcome is final
EvalDone ==
    /\ pc = "eval"
    /\ rule_index > Len(route_maps)
    /\ pc' = "routed"
    /\ UNCHANGED << argVars, envVars, serviceVars, route_maps, routerVars, normalizerVars, registryVars >>

NextRouter == RouterCreateRouteMaps \/ EvalRule \/ EvalDone

SpecRouter == InitRouter /\ [][NextRouter]_vars

(***************************************************************************)
(* Vocabulary of the routing claims                                        *)
(***************************************************************************)
Routed == pc = "routed"
StandardMode == ~automation_mode
\* a tag list was passed: argparse nargs='+' never yields an empty list
IncludeOnly == StandardMode /\ include_tags # << >>
IncludeSet == Range(include_tags)
ExcludeSet == Range(exclude_tags)

IsOverridePath(d) ==
    /\ Len(d.path) > 1
    /\ d.path[1] \in {"search", "analytics"}

OverrideTarget(d) == d.method = "GET" /\ IsOverridePath(d)

\* rules of the list, by role
IsExcludeAll(r) == r = ExcludeAllRule
IsIncludeTagRule(r) == r.mcp_type = "TOOL" /\ r.tags # {}
IsTagBased(r) == r.tags # {}

\* indexes of the rules already tried that match the descriptor
MatchedBefore(n) == { j \in 1..(n - 1) : j <= Len(route_maps) /\ RuleMatches(route_maps[j], route) }

Max(S) == CHOOSE x \in S : \A y \in S : y <= x

\* C1: under the include-only policy a descriptor exposed as an action
\* declares at least one tag of the include set.
C1_ExposedActionIntersectsInclude ==
    (Routed /\ IncludeOnly /\ mcp_type = "TOOL")
        => (route.tags \cap IncludeSet # {})

C1_Witness ==
    /\ Routed /\ IncludeOnly /\ mcp_type = "TOOL"
    /\ exclude_tags # << >>
    /\ route.tags \cap IncludeSet # {}

\* C2 as claimed: under the include-only policy an exposed action declares
\* no tag outside the include set, unless a method/path override added it.
C2_Original_NoTagOutsideInclude ==
    (Routed /\ IncludeOnly /\ mcp_type = "TOOL" /\ ~OverrideTarget(route))
        => (route.tags \subseteq IncludeSet)

\* C2 amended: under the include-only policy an exposed action declares at
\* least one tag of the include set (it may declare others as well), and the
\* override rules expose no action: a descriptor they match is never an action.
C2_ExposedActionHasIncludedTagAndNoOverride ==
    (Routed /\ IncludeOnly /\ mcp_type = "TOOL")
        => /\ ~(route.tags \cap IncludeSet = {})
           /\ ~OverrideTarget(route)

C2_Witness ==
    /\ Routed /\ IncludeOnly /\ mcp_type = "TOOL"
    /\ ~(route.tags \subseteq IncludeSet)
    /\ IsOverridePath(route)

\* C3 as claimed: in standard mode no descriptor exposed as an action carries
\* a tag of the exclude set, with or without an include list.
C3_NoExposedActionCarriesExcludedTag ==
    (Routed /\ StandardMode /\ mcp_type = "TOOL")
        => (route.tags \cap ExcludeSet = {})

\* C4: after every step the outcome is the default when no rule tried so far
\* matched, and otherwise the type of the last rule tried that matched.
LastMatchWins ==
    (pc \in {"eval", "routed"}) =>
        LET m == MatchedBefore(rule_index)
        IN  mcp_type = IF m = {} THEN DefaultType ELSE route_maps[Max(m)].mcp_type

MatchedByExcludeAllThenInclude ==
    \E i, j \in 1..Len(route_maps) :
        /\ i < j
        /\ IsExcludeAll(route_maps[i])
        /\ RuleMatches(route_maps[i], route)
        /\ IsIncludeTagRule(route_maps[j])
        /\ RuleMatches(route_maps[j], route)

\* C4 as claimed: last match wins, so a descriptor matched by the catch-all
\* exclude rule and by a later include-tag rule ends up an action.
C4_Original_LastMatchWinsSoAction ==
    /\ LastMatchWins
    /\ (Routed /\ MatchedByExcludeAllThenInclude) => mcp_type = "TOOL"

\* C4 amended: last match wins; a descriptor matched by the catch-all
\* exclude rule and by a later include-tag rule ends up an action unless a
\* later override rule matches it too, and then it ends up a resource.
C4_LastMatchWinsActionUnlessOverride ==
    /\ LastMatchWins
    /\ (Routed /\ MatchedByExcludeAllThenInclude)
          => mcp_type = IF OverrideTarget(route) THEN "RESOURCE" ELSE "TOOL"

C4_Witness ==
    /\ Routed /\ MatchedByExcludeAllThenInclude
    /\ mcp_type = "TOOL"
    /\ Cardinality(MatchedBefore(rule_index)) >= 3

\* C5 as claimed: under the include-only policy a descriptor none of whose
\* tags is in the include set ends up excluded, whatever its method and path.
C5_Original_UnmatchedIsExcluded ==
    (Routed /\ IncludeOnly /\ route.tags \cap IncludeSet = {})
        => mcp_type = "EXCLUDE"

\* C5 amended: such a descriptor is never an action; it ends up excluded,
\* except a GET under /search/ or /analytics/, which ends up a resource.
C5_UnmatchedIsExcludedUnlessOverride ==
    (Routed /\ IncludeOnly /\ route.tags \cap IncludeSet = {})
        => mcp_type = IF OverrideTarget(route) THEN "RESOURCE" ELSE "EXCLUDE"

C5_Witness ==
    /\ Routed /\ IncludeOnly /\ route.tags \cap IncludeSet = {}
    /\ route.tags # {}
    /\ mcp_type = "EXCLUDE"

\* the rule list without the override rules appended last
TagBasedRules == SubSeq(route_maps, 1, Len(route_maps) - Len(OverrideRules))

\* C6: in standard mode a GET under /search/ or /analytics/ ends up a
\* resource whatever the tags and the tag lists; any other descriptor has
\* the outcome the tag-based rules alone give it.
C6_OverridesForceResourceOnlyOnTargets ==
    (Routed /\ StandardMode) =>
        IF OverrideTarget(route)
        THEN mcp_type = "RESOURCE"
        ELSE mcp_type = DetermineRouteType(TagBasedRules, route)

C6_Witness ==
    /\ Routed /\ StandardMode /\ OverrideTarget(route)
    /\ mcp_type = "RESOURCE"
    /\ route.tags \cap ExcludeSet # {}
    /\ route.tags \cap IncludeSet # {}

(***************************************************************************)
(* Document Normalizer.  A JSON value is a one-field record:               *)
(*    [str |-> s]    a string                                              *)
(*    [dict |-> f]   a mapping, f a function from its keys to values       *)
(*    [list |-> q]   a list, q a sequence of values                        *)
(***************************************************************************)
Str(s) == [str |-> s]
Dict(f) == [dict |-> f]
List(q) == [list |-> q]

IsStr(v) == DOMAIN v = {"str"}
IsDict(v) == DOMAIN v = {"dict"}
IsList(v) == DOMAIN v = {"list"}

\* mutants of _fix_schema_types
RECURSIVE FixSchemaTypes_AnyKey(_)
FixSchemaTypes_AnyKey(obj) ==
    IF IsDict(obj)
    THEN Dict([ key \in DOMAIN obj.dict |->
                LET value == obj.dict[key]
                IN  IF value = Str("Bool") THEN Str("boolean")
                    ELSE IF IsDict(value) \/ IsList(value)
                         THEN FixSchemaTypes_AnyKey(value)
                         ELSE value ])
    ELSE IF IsList(obj)
    THEN List([ i \in DOMAIN obj.list |->
                LET item == obj.list[i]
                IN  IF IsDict(item) \/ IsList(item)
                    THEN FixSchemaTypes_AnyKey(item)
                    ELSE item ])
    ELSE obj

RECURSIVE FixSchemaTypes_SkipLists(_)
FixSchemaTypes_SkipLists(obj) ==
    IF IsDict(obj)
    THEN Dict([ key \in DOMAIN obj.dict |->
                LET value == obj.dict[key]
                IN  IF key = "type" /\ value = Str("Bool") THEN Str("boolean")
                    ELSE IF IsDict(value)
                         THEN FixSchemaTypes_SkipLists(value)
                         ELSE value ])
    ELSE obj

\* _fix_schema_types: the object after the in-place repair
RECURSIVE FixSchemaTypes(_)
FixSchemaTypes(obj) ==
    IF IsDict(obj)
    THEN Dict([ key \in DOMAIN obj.dict |->
                LET value == obj.dict[key]
                IN  IF key = "type" /\ value = Str("Bool") THEN Str("boolean")
                    ELSE IF IsDict(value) \/ IsList(value)
                         THEN FixSchemaTypes(value)
                         ELSE value ])
    ELSE IF IsList(obj)
    THEN List([ i \in DOMAIN obj.list |->
                LET item == obj.list[i]
                IN  IF IsDict(item) \/ IsList(item)
                    THEN FixSchemaTypes(item)
                    ELSE item ])
    ELSE obj

HasSchemas(spec) ==
    /\ "components" \in DOMAIN spec.dict
    /\ "schemas" \in DOMAIN spec.dict["components"].dict

SchemasOf(spec) == spec.dict["components"].dict["schemas"].dict

\* _load_openapi_spec after json.load: every schema of components.schemas
\* is repaired, the rest of the document is returned as read
LoadOpenapiSpec(spec) ==
    IF HasSchemas(spec)
    THEN LET schemas == SchemasOf(spec)
             fixed == Dict([ schema_name \in DOMAIN schemas |->
                             FixSchemaTypes(schemas[schema_name]) ])
             components == Dict([ spec.dict["components"].dict
                                  EXCEPT !["schemas"] = fixed ])
         IN  Dict([ spec.dict EXCEPT !["components"] = components ])
    ELSE spec

(***************************************************************************)
(* Documents enumerated: every value nested to MaxDepth under one schema   *)
(* of components.schemas, and documents whose "Bool" lies elsewhere.       *)
(***************************************************************************)
MaxDepth == 2

\* list lengths enumerated: the items of a list are repaired one by one,
\* each on its own (lines 118-120)
ListLengths == {0, 1}

TypeTokens == {"Bool", "boolean"}
SchemaKeys == {"type", "items"}

RECURSIVE Values(_)
Values(n) ==
    IF n = 0 THEN { Str(s) : s \in TypeTokens }
    ELSE LET lower == Values(n - 1)
         IN  { Str(s) : s \in TypeTokens }
             \cup { Dict(f) : f \in UNION { [K -> lower] : K \in SUBSET SchemaKeys } }
             \cup { List(q) : q \in UNION { [1..k -> lower] : k \in ListLengths } }

EmptyDict == Dict(<< >>)

Sections == { EmptyDict, Dict([type |-> Str("Bool")]), Dict([type |-> Str("boolean")]) }

Documents ==
    { Dict([paths |-> EmptyDict, components |-> Dict([schemas |-> Dict([Flag |-> v])])]) :
          v \in Values(MaxDepth) }
    \cup { Dict([paths |-> p, components |-> Dict([schemas |-> Dict([Flag |-> v])])]) :
          p \in Sections, v \in Values(1) }
    \cup { Dict([paths |-> p, components |-> Dict([parameters |-> q])]) :
          p \in Sections, q \in Sections }
    \cup { Dict([paths |-> p]) : p \in Sections }
    \cup { Dict([paths |-> EmptyDict, components |-> Dict([schemas |-> Dict([type |-> v])])]) :
          v \in Values(0) }

InitNormalizer ==
    /\ pc = "read"
    /\ raw_spec \in Documents
    /\ openapi_spec = raw_spec
    /\ automation_mode = FALSE
    /\ include_tags = << >>
    /\ exclude_tags = << >>
    /\ enable_transformations = TRUE
    /\ route_maps = << >>
    /\ route = [method |-> "GET", path |-> <<"users">>, tags |-> {}]
    /\ rule_index = 0
    /\ mcp_type = DefaultType
    /\ operations = {}
    /\ tools = << >>
    /\ resources = {}
    /\ transformations = << >>
    /\ todo = << >>
    /\ transformed = {}
    /\ warnings = {}
    /\ NoService

\* self.openapi_spec = self._load_openapi_spec()
NormalizerLoad ==
    /\ pc = "read"
    /\ openapi_spec' = LoadOpenapiSpec(openapi_spec)
    /\ pc' = "loaded"
    /\ UNCHANGED << argVars, envVars, serviceVars, route_maps, routerVars, raw_spec, registryVars >>

\* the normalizer run once more over the document it returned
NormalizerLoadAgain ==
    /\ pc = "loaded"
    /\ openapi_spec' = LoadOpenapiSpec(openapi_spec)
    /\ pc' = "reloaded"
    /\ UNCHANGED << argVars, envVars, serviceVars, route_maps, routerVars, raw_spec, registryVars >>

NextNormalizer == NormalizerLoad \/ NormalizerLoadAgain

SpecNormalizer == InitNormalizer /\ [][NextNormalizer]_vars

\* occurrences of the string s as a value at any depth
RECURSIVE SumOver(_, _)
SumOver(f, D) ==
    IF D = {} THEN 0
    ELSE LET x == CHOOSE y \in D : TRUE IN f[x] + SumOver(f, D \ {x})

RECURSIVE Count(_, _)
Count(v, s) ==
    IF IsStr(v) THEN (IF v.str = s THEN 1 ELSE 0)
    ELSE IF IsDict(v)
    THEN SumOver([ key \in DOMAIN v.dict |-> Count(v.dict[key], s) ], DOMAIN v.dict)
    ELSE SumOver([ i \in DOMAIN v.list |-> Count(v.list[i], s) ], DOMAIN v.list)

\* mappings at any depth of v that hold "type": "Bool"
RECURSIVE TypeBoolSites(_)
TypeBoolSites(v) ==
    IF IsStr(v) THEN 0
    ELSE IF IsDict(v)
    THEN SumOver([ key \in DOMAIN v.dict |->
                   IF key = "type" /\ v.dict[key] = Str("Bool") THEN 1
                   ELSE TypeBoolSites(v.dict[key]) ], DOMAIN v.dict)
    ELSE SumOver([ i \in DOMAIN v.list |-> TypeBoolSites(v.list[i]) ], DOMAIN v.list)

\* the "type": "Bool" mappings inside the schemas of components.schemas
SchemaTypeBoolSites(spec) ==
    IF HasSchemas(spec)
    THEN SumOver([ n \in DOMAIN SchemasOf(spec) |-> TypeBoolSites(SchemasOf(spec)[n]) ],
                 DOMAIN SchemasOf(spec))
    ELSE 0

Loaded == pc = "loaded"

\* C8 as claimed: the document returned by _load_openapi_spec holds no
\* "Bool" anywhere, and at least as many "boolean" as the document read.
C8_Original_NoBoolAnywhere ==
    Loaded => /\ Count(openapi_spec, "Bool") = 0
              /\ Count(openapi_spec, "boolean") >= Count(raw_spec, "boolean")

\* C8 amended: in the document returned no mapping inside a schema of
\* components.schemas, at any depth, holds "type": "Bool"; each such mapping
\* of the document read accounts for one "Bool" less and one "boolean" more,
\* and every other "Bool" (a list element, the value of another key, outside
\* components.schemas) is still there.
C8_TypeBoolInSchemasRewritten ==
    Loaded => /\ SchemaTypeBoolSites(openapi_spec) = 0
              /\ Count(openapi_spec, "boolean")
                     = Count(raw_spec, "boolean") + SchemaTypeBoolSites(raw_spec)
              /\ Count(openapi_spec, "Bool")
                     = Count(raw_spec, "Bool") - SchemaTypeBoolSites(raw_spec)

C8_Witness ==
    /\ Loaded
    /\ SchemaTypeBoolSites(raw_spec) >= 2
    /\ Count(openapi_spec, "Bool") >= 1
    /\ Count(openapi_spec, "boolean") > Count(raw_spec, "boolean")

\* b is a with nothing changed but "type" values that were "Bool"
RECURSIVE SameButTypeBool(_, _)
SameButTypeBool(a, b) ==
    IF IsStr(a) THEN b = a
    ELSE IF IsDict(a)
    THEN /\ IsDict(b)
         /\ DOMAIN b.dict = DOMAIN a.dict
         /\ \A key \in DOMAIN a.dict :
                IF key = "type" /\ a.dict[key] = Str("Bool")
                THEN b.dict[key] \in { Str("Bool"), Str("boolean") }
                ELSE SameButTypeBool(a.dict[key], b.dict[key])
    ELSE /\ IsList(b)
         /\ Len(b.list) = Len(a.list)
         /\ \A i \in DOMAIN a.list : SameButTypeBool(a.list[i], b.list[i])

\* C9: a second run of the normalizer changes nothing, and the first run
\* changes nothing but "type" values equal to "Bool".
C9_IdempotentAndFrame ==
    /\ (pc = "reloaded") => openapi_spec = LoadOpenapiSpec(raw_spec)
    /\ (pc \in {"loaded", "reloaded"}) => SameButTypeBool(raw_spec, openapi_spec)

C9_Witness ==
    /\ pc = "reloaded"
    /\ openapi_spec # raw_spec
    /\ Count(openapi_spec, "Bool") >= 1

(***************************************************************************)
(* Spec: create_server.  The document's operations are generated into the  *)
(* registry under the rule list, the Transformation Table is applied entry *)
(* by entry, and the Composed Handlers are registered.                     *)
(***************************************************************************)
\* operations of the API description: identifier -> method, path, tags
OperationCatalogue ==
    [ get_users       |-> [method |-> "GET",  path |-> <<"users">>, tags |-> {"users"}],
      get_streams     |-> [method |-> "GET",  path |-> <<"streams">>, tags |-> {"streams"}],
      search_channels |-> [method |-> "GET",  path |-> <<"search", "channels">>, tags |-> {"search"}],
      get_clips       |-> [method |-> "GET",  path |-> <<"clips">>, tags |-> {"clips"}],
      create_clip     |-> [method |-> "POST", path |-> <<"clips">>, tags |-> {"clips"}],
      get_top_games   |-> [method |-> "GET",  path |-> <<"games", "top">>, tags |-> {"games"}] ]

OperationIds == DOMAIN OperationCatalogue

\* _create_tool_transformations: source operation -> exposed name
UniversalTransformations ==
    [ get_users       |-> [name |-> "find_twitch_users"],
      get_streams     |-> [name |-> "get_live_streams"],
      search_channels |-> [name |-> "search_twitch_channels"] ]

AutomationTransforms ==
    [ get_clips     |-> [name |-> "get_trending_clips"],
      get_top_games |-> [name |-> "analyze_trending_categories"] ]

\* dict.update: the entries of b added to a, b's value on a shared key
Update(a, b) ==
    [ k \in DOMAIN a \cup DOMAIN b |-> IF k \in DOMAIN b THEN b[k] ELSE a[k] ]

\* mutant of _create_tool_transformations
CreateToolTransformations_Replace(auto) ==
    IF auto THEN AutomationTransforms ELSE UniversalTransformations

CreateToolTransformations(auto) ==
    IF auto THEN Update(UniversalTransformations, AutomationTransforms)
    ELSE UniversalTransformations

\* iteration order of the table: insertion order of the dict
TransformationOrder(auto) ==
    IF auto
    THEN << "get_users", "get_streams", "search_channels", "get_clips", "get_top_games" >>
    ELSE << "get_users", "get_streams", "search_channels" >>

\* FastMCP.from_openapi(route_maps=...): the generated components
GeneratedAs(ops, rules, type) ==
    { id \in ops : DetermineRouteType(rules, OperationCatalogue[id]) = type }

GenerateTools(ops, rules) ==
    [ id \in GeneratedAs(ops, rules, "TOOL") |-> [enabled |-> TRUE, fn |-> id] ]

\* mutant of the body of the transformation loop
ApplyTransformation_RemoveOriginal(registry, tool_name, config) ==
    [ n \in (DOMAIN registry \ {tool_name}) \cup {config.name} |->
        IF n = config.name
        THEN [enabled |-> registry[tool_name].enabled, fn |-> registry[tool_name].fn]
        ELSE registry[n] ]

ApplyTransformation_DisableOthers(registry, tool_name, config) ==
    LET transformed_tool ==
            [enabled |-> registry[tool_name].enabled, fn |-> registry[tool_name].fn]
        added == Update(registry, [ n \in {config.name} |-> transformed_tool ])
    IN  [ n \in DOMAIN added |->
            IF n = config.name THEN added[n] ELSE [ added[n] EXCEPT !.enabled = FALSE ] ]

\* Tool.from_tool(original_tool, name=...), add_tool, original_tool.disable()
ApplyTransformation(registry, tool_name, config) ==
    LET transformed_tool ==
            [enabled |-> registry[tool_name].enabled, fn |-> registry[tool_name].fn]
        added == Update(registry, [ n \in {config.name} |-> transformed_tool ])
    IN  [ added EXCEPT ![tool_name].enabled = FALSE ]

\* names registered by _add_custom_tools
CustomTools(auto) ==
    IF auto
    THEN { "get_twitch_token_info", "analyze_viral_potential",
           "get_automation_ready_clips", "trend_monitoring_dashboard" }
    ELSE { "get_twitch_token_info" }

AddCustomTools(registry, auto) ==
    Update(registry, [ n \in CustomTools(auto) |-> [enabled |-> TRUE, fn |-> n] ])

Init ==
    /\ pc = "start"
    /\ automation_mode \in BOOLEAN
    /\ include_tags \in TagLists
    /\ exclude_tags \in TagLists
    /\ enable_transformations \in BOOLEAN
    /\ operations \in SUBSET OperationIds
    /\ route_maps = << >>
    /\ route = [method |-> "GET", path |-> <<"users">>, tags |-> {}]
    /\ rule_index = 0
    /\ mcp_type = DefaultType
    /\ openapi_spec = NoDocument
    /\ raw_spec = NoDocument
    /\ tools = << >>
    /\ resources = {}
    /\ transformations = << >>
    /\ todo = << >>
    /\ transformed = {}
    /\ warnings = {}
    /\ NoService

unchangedByServer == << argVars, envVars, serviceVars, routerVars, normalizerVars, operations >>

\* route_maps = self._create_route_maps(include_tags, exclude_tags, automation_mode)
CreateRouteMapsStep ==
    /\ pc = "start"
    /\ route_maps' = CreateRouteMaps(include_tags, exclude_tags, automation_mode)
    /\ pc' = "route_maps"
    /\ UNCHANGED << unchangedByServer, tools, resources, transformations, todo,
                    transformed, warnings >>

\* self.mcp = FastMCP.from_openapi(...)
FromOpenapi ==
    /\ pc = "route_maps"
    /\ tools' = GenerateTools(operations, route_maps)
    /\ resources' = GeneratedAs(operations, route_maps, "RESOURCE")
    /\ pc' = "generated"
    /\ UNCHANGED << unchangedByServer, route_maps, transformations, todo,
                    transformed, warnings >>

\* if enable_transformations: transformations = self._create_tool_transformations(...)
BeginTransformations ==
    /\ pc = "generated"
    /\ enable_transformations
    /\ transformations' = CreateToolTransformations(automation_mode)
    /\ todo' = TransformationOrder(automation_mode)
    /\ pc' = "transform"
    /\ UNCHANGED << unchangedByServer, route_maps, tools, resources, transformed, warnings >>

\* enable_transformations is False: the loop is not entered
SkipTransformations ==
    /\ pc = "generated"
    /\ ~enable_transformations
    /\ pc' = "custom"
    /\ UNCHANGED << unchangedByServer, route_maps, tools, resources, transformations,
                    todo, transformed, warnings >>

\* loop body, tool_name in tools, no exception
TransformTool ==
    /\ pc = "transform"
    /\ todo # << >>
    /\ Head(todo) \in DOMAIN tools
    /\ tools' = ApplyTransformation(tools, Head(todo), transformations[Head(todo)])
    /\ transformed' = transformed \cup {Head(todo)}
    /\ todo' = Tail(todo)
    /\ UNCHANGED << unchangedByServer, pc, route_maps, resources, transformations, warnings >>

\* loop body, tool_name in tools, building the replacement raises (for one,
\* Tool.from_tool on an argument the generated tool does not declare): the
\* except clause prints the warning and the loop goes on
TransformRaises ==
    /\ pc = "transform"
    /\ todo # << >>
    /\ Head(todo) \in DOMAIN tools
    /\ warnings' = warnings \cup {Head(todo)}
    /\ todo' = Tail(todo)
    /\ UNCHANGED << unchangedByServer, pc, route_maps, tools, resources, transformations,
                    transformed >>

\* loop body, tool_name not in tools: nothing is done, nothing is printed
TransformAbsent ==
    /\ pc = "transform"
    /\ todo # << >>
    /\ Head(todo) \notin DOMAIN tools
    /\ todo' = Tail(todo)
    /\ UNCHANGED << unchangedByServer, pc, route_maps, tools, resources, transformations,
                    transformed, warnings >>

\* the table is exhausted
EndTransformations ==
    /\ pc = "transform"
    /\ todo = << >>
    /\ pc' = "custom"
    /\ UNCHANGED << unchangedByServer, route_maps, tools, resources, transformations,
                    todo, transformed, warnings >>

\* await self._add_custom_tools(automation_mode); return self.mcp
AddCustomToolsStep ==
    /\ pc = "custom"
    /\ tools' = AddCustomTools(tools, automation_mode)
    /\ pc' = "ready"
    /\ UNCHANGED << unchangedByServer, route_maps, resources, transformations, todo,
                    transformed, warnings >>

Next ==
    \/ CreateRouteMapsStep
    \/ FromOpenapi
    \/ BeginTransformations
    \/ SkipTransformations
    \/ TransformTool
    \/ TransformRaises
    \/ TransformAbsent
    \/ EndTransformations
    \/ AddCustomToolsStep

Spec == Init /\ [][Next]_vars

(***************************************************************************)
(* Claims about create_server                                              *)
(***************************************************************************)
StandardKeys == {"get_users", "get_streams", "search_channels"}

TableInEffect == pc \in {"transform", "custom", "ready"} /\ enable_transformations

\* C7 as claimed: in automation mode the rule list is the automation list
\* whatever the tag arguments are, and the table in effect holds none of
\* the standard-mode entries.
C7_Original_TableReplacedWholesale ==
    automation_mode =>
        /\ (pc # "start") =>
              /\ route_maps = CreateRouteMaps(<< >>, << >>, TRUE)
              /\ \A i \in DOMAIN route_maps : ~IsTagBased(route_maps[i])
        /\ TableInEffect => (DOMAIN transformations \cap StandardKeys = {})

\* C7 amended: in automation mode the rule list is the automation list
\* whatever the tag arguments are (they contribute no rule); the table in
\* effect is the standard table, every entry as in standard mode, extended
\* with the get_clips and get_top_games entries.
C7_RulesReplacedTableExtended ==
    automation_mode =>
        /\ (pc # "start") =>
              /\ route_maps = CreateRouteMaps(<< >>, << >>, TRUE)
              /\ \A i \in DOMAIN route_maps : ~IsTagBased(route_maps[i])
        /\ TableInEffect =>
              /\ DOMAIN transformations = StandardKeys \cup {"get_clips", "get_top_games"}
              /\ \A k \in StandardKeys :
                    transformations[k] = CreateToolTransformations(FALSE)[k]

C7_Witness ==
    /\ automation_mode
    /\ pc = "ready"
    /\ TableInEffect
    /\ include_tags # << >>
    /\ exclude_tags # << >>
    /\ "get_users" \in DOMAIN transformations

\* the operations generated as actions by from_openapi
GeneratedTools == GeneratedAs(operations, route_maps, "TOOL")

LoopDone == pc \in {"custom", "ready"}

Replaced(key) ==
    LET target == transformations[key].name
    IN  /\ target \in DOMAIN tools
        /\ tools[target].enabled
        /\ tools[target].fn = key
        /\ key \in DOMAIN tools
        /\ ~tools[key].enabled

AbsentKeys == DOMAIN transformations \ GeneratedTools

\* C11 as claimed: after the transformation loop every entry whose source
\* operation is not in the registry has been skipped (its target name is not
\* registered) and a warning naming the entry has been reported.
C11_AbsentOperationWarned ==
    (LoopDone /\ TableInEffect) =>
        \A key \in AbsentKeys :
            /\ transformations[key].name \notin DOMAIN tools
            /\ key \in warnings

\* the registry create_server would build if key were the table's only entry
Alone(key) ==
    LET generated == GenerateTools(operations, route_maps)
    IN  IF key \in DOMAIN generated /\ key \notin warnings
        THEN ApplyTransformation(generated, key, transformations[key])
        ELSE generated

SameEntry(a, b, n) ==
    /\ n \in DOMAIN a <=> n \in DOMAIN b
    /\ n \in DOMAIN a => a[n] = b[n]

\* C12: whatever entries are skipped or raise, after the loop every entry has
\* been processed and has left its source and target names as it would alone;
\* the Composed Handlers are registered afterwards; create_server is never
\* stuck before it returns.
C12_EntriesIsolatedAndServerReturned ==
    /\ (LoopDone /\ TableInEffect) =>
          /\ todo = << >>
          /\ DOMAIN transformations \cap GeneratedTools = transformed \cup warnings
          /\ \A key \in DOMAIN transformations :
                /\ SameEntry(tools, Alone(key), key)
                /\ SameEntry(tools, Alone(key), transformations[key].name)
    /\ (pc = "ready") =>
          \A n \in CustomTools(automation_mode) : n \in DOMAIN tools /\ tools[n].enabled
    /\ (pc \in {"start", "route_maps", "generated", "transform", "custom"}) => ENABLED Next

C12_Witness ==
    /\ pc = "ready"
    /\ TableInEffect
    /\ "get_users" \in warnings
    /\ "get_streams" \in transformed
    /\ AbsentKeys # {}
    /\ "get_twitch_token_info" \in DOMAIN tools

\* the exposed names the table of the selected mode can register
TargetNames == { CreateToolTransformations(automation_mode)[key].name :
                    key \in DOMAIN CreateToolTransformations(automation_mode) }

Generated == pc \notin {"start", "route_maps"}

\* C21: a transformation target name is in the registry only if its source
\* operation was generated as an action.  In standard mode, whatever the tag
\* lists, search_channels is a resource and search_twitch_channels is never
\* registered; in automation mode get_users, get_streams, search_channels
\* and get_top_games are resources and get_clips -> get_trending_clips is
\* the only transformation applied.
C21_TargetOnlyIfSourceIsAction ==
    /\ \A key \in DOMAIN CreateToolTransformations(automation_mode) :
          CreateToolTransformations(automation_mode)[key].name \in DOMAIN tools
              => /\ key \in GeneratedTools
                 /\ DetermineRouteType(route_maps, OperationCatalogue[key]) = "TOOL"
    /\ (Generated /\ ~automation_mode) =>
          /\ "search_channels" \in operations => "search_channels" \in resources
          /\ "search_channels" \notin DOMAIN tools
          /\ "search_channels" \notin transformed
          /\ "search_twitch_channels" \notin DOMAIN tools
    /\ (Generated /\ automation_mode) =>
          /\ \A id \in {"get_users", "get_streams", "search_channels", "get_top_games"} :
                /\ id \in operations => id \in resources
                /\ id \notin DOMAIN tools
          /\ transformed \subseteq {"get_clips"}
          /\ TargetNames \cap DOMAIN tools \subseteq {"get_trending_clips"}

C21_Witness ==
    /\ pc = "ready"
    /\ automation_mode
    /\ TableInEffect
    /\ operations = OperationIds
    /\ transformed = {"get_clips"}
    /\ "get_trending_clips" \in DOMAIN tools
    /\ {"get_users", "get_streams", "search_channels", "get_top_games"} \subseteq resources



(***************************************************************************)
(* Composed Handlers (_add_custom_tools).  An upstream call either times   *)
(* out (httpx raises) or returns a response: a status code and a JSON      *)
(* body.  A JSON object is a record; a key the body omits is a field the   *)
(* record lacks, and reading it with [] raises KeyError.                   *)
(***************************************************************************)
Timeout == [kind |-> "timeout"]
Response(code, body) == [kind |-> "response", status_code |-> code, json |-> body]

\* the body of a non-success response: no "data", no "total"
ErrorBody == [error |-> "Unauthorized", message |-> "Invalid OAuth token"]
HttpError == Response(401, ErrorBody)

\* dict.get(key, default)
Get(d, key, default) == IF key \in DOMAIN d THEN d[key] ELSE default

Endpoints ==
    { "/oauth2/validate", "/users", "/streams", "/channels/followers",
      "/clips", "/games/top" }

\* a handler invocation: the handler, the upstream call it is suspended on,
\* its arguments and locals, the calls issued so far, the value returned
NoValue == [none |-> TRUE]

Idle ==
    [handler |-> "none", at |-> "idle", args |-> NoValue, locals |-> NoValue,
     calls |-> << >>, result |-> NoValue]

Start(handler, args) ==
    [handler |-> handler, at |-> "entry", args |-> args, locals |-> NoValue,
     calls |-> << >>, result |-> NoValue]

\* await self.http_client.get(endpoint): the task is suspended on the call
Call(self, endpoint) ==
    [self EXCEPT !.at = endpoint,
                 !.calls = Append(@, [endpoint |-> endpoint, outcome |-> "pending"])]

Outcome(response) ==
    IF response.kind = "timeout" THEN "timeout"
    ELSE IF response.status_code = 200 THEN "success"
    ELSE "non_success"

\* the pending call ends: with a response, a timeout or the task's cancellation
Ended(self, outcome) == [self EXCEPT !.calls[Len(self.calls)].outcome = outcome]

Answered(self, response) == Ended(self, Outcome(response))

Return(self, payload) == [self EXCEPT !.at = "done", !.result = payload]

\* an exception the handler does not catch ends the invocation
Raise(self, exception) == [self EXCEPT !.at = "done", !.result = [raised |-> exception]]

(***************************************************************************)
(* get_twitch_token_info                                                   *)
(***************************************************************************)
TokenInfoEntry(self, has_token) ==
    IF ~has_token
    THEN Return(self, [error |-> "No access token provided"])
    ELSE Call(self, "/oauth2/validate")

\* mutants of get_token_info
TokenInfoOnValidate_AnyResponseValid(self, response) ==
    IF response.kind = "timeout"
    THEN Return(self, [valid |-> FALSE, error |-> "TimeoutException"])
    ELSE Return(self, [valid |-> TRUE,
                       client_id |-> Get(response.json, "client_id", "None"),
                       scopes |-> Get(response.json, "scopes", << >>),
                       expires_in |-> Get(response.json, "expires_in", "None")])

TokenInfoOnValidate(self, response) ==
    IF response.kind = "timeout"
    THEN Return(self, [valid |-> FALSE, error |-> "TimeoutException"])
    ELSE IF response.status_code = 200
    THEN Return(self, [valid |-> TRUE,
                       client_id |-> Get(response.json, "client_id", "None"),
                       scopes |-> Get(response.json, "scopes", << >>),
                       expires_in |-> Get(response.json, "expires_in", "None")])
    ELSE Return(self, [valid |-> FALSE, error |-> "Token validation failed"])

(***************************************************************************)
(* analyze_viral_potential                                                 *)
(***************************************************************************)
ViralError(message) == [error |-> message, viral_score |-> 0]

\* mutant of the follower factor: the two bands swapped
FollowerPoints_BandsSwapped(follower_count) ==
    IF follower_count > 100000 THEN 25
    ELSE IF follower_count > 10000 THEN 40
    ELSE 0

FollowerPoints(follower_count) ==
    IF follower_count > 100000 THEN 40
    ELSE IF follower_count > 10000 THEN 25
    ELSE 0

ActivityPoints(stream_data) ==
    IF Len(stream_data) > 0
    THEN LET viewer_count == Get(stream_data[1], "viewer_count", 0)
         IN  (IF viewer_count > 10000 THEN 30
              ELSE IF viewer_count > 1000 THEN 20
              ELSE 0) + 10
    ELSE 0

PopularityPoints(user_data) ==
    IF Get(user_data, "view_count", 0) > 50000000 THEN 20 ELSE 0

ViralScore(user_data, stream_data, follower_count) ==
    FollowerPoints(follower_count) + ActivityPoints(stream_data)
        + PopularityPoints(user_data)

Recommendation(viral_score) ==
    IF viral_score >= 70 THEN "EXTREMELY HIGH - Create clips IMMEDIATELY!"
    ELSE IF viral_score >= 50 THEN "HIGH - Great for viral content"
    ELSE IF viral_score >= 30 THEN "MEDIUM - Good potential"
    ELSE "LOW - Consider other streamers"

\* mutant of automation_priority: "high" from the recommendation's top band
AutomationPriority_HighFromSeventy(viral_score) ==
    IF viral_score >= 70 THEN "high"
    ELSE IF viral_score >= 30 THEN "medium"
    ELSE "low"

AutomationPriority(viral_score) ==
    IF viral_score >= 50 THEN "high"
    ELSE IF viral_score >= 30 THEN "medium"
    ELSE "low"

AnalyzeEntry(self) == Call(self, "/users")

AnalyzeOnUsers(self, response) ==
    IF response.kind = "timeout" THEN Return(self, ViralError("TimeoutException"))
    ELSE IF response.status_code # 200 THEN Return(self, ViralError("Streamer not found"))
    ELSE IF "data" \notin DOMAIN response.json THEN Return(self, ViralError("KeyError"))
    ELSE IF Len(response.json.data) = 0 THEN Return(self, ViralError("IndexError"))
    ELSE IF "id" \notin DOMAIN response.json.data[1] THEN Return(self, ViralError("KeyError"))
    ELSE Call([self EXCEPT !.locals = [user_data |-> response.json.data[1]]], "/streams")

\* the status code of the /streams response is not looked at
AnalyzeOnStreams(self, response) ==
    IF response.kind = "timeout" THEN Return(self, ViralError("TimeoutException"))
    ELSE IF "data" \notin DOMAIN response.json THEN Return(self, ViralError("KeyError"))
    ELSE Call([self EXCEPT !.locals = [user_data |-> self.locals.user_data,
                                       stream_data |-> response.json.data]],
              "/channels/followers")

\* try: ... except: pass around the followers call
FollowerCount(response) ==
    IF response.kind = "timeout" THEN 0
    ELSE IF response.status_code = 200 THEN Get(response.json, "total", 0)
    ELSE 0

AnalyzeOnFollowers(self, response) ==
    LET user_data == self.locals.user_data
        stream_data == self.locals.stream_data
        is_live == Len(stream_data) > 0
        follower_count == FollowerCount(response)
        viral_score == ViralScore(user_data, stream_data, follower_count)
    IN  IF "display_name" \notin DOMAIN user_data
        THEN Return(self, ViralError("KeyError"))
        ELSE LET result ==
                     [streamer |-> user_data.display_name,
                      viral_score |-> viral_score,
                      recommendation |-> Recommendation(viral_score),
                      is_live |-> is_live,
                      follower_count |-> follower_count,
                      automation_priority |-> AutomationPriority(viral_score)]
                 live ==
                     [current_viewers |-> Get(stream_data[1], "viewer_count", 0),
                      current_game |-> Get(stream_data[1], "game_name", "Unknown"),
                      stream_title |-> Get(stream_data[1], "title", "")]
             IN  Return(self, IF is_live THEN Update(result, live) ELSE result)

(***************************************************************************)
(* get_automation_ready_clips                                              *)
(***************************************************************************)
Min(a, b) == IF a <= b THEN a ELSE b

\* seq[:n]
Take(seq, n) == SubSeq(seq, 1, Min(n, Len(seq)))

ClipsError(message) == [error |-> message, clips |-> << >>]

\* the keys of a clip read with clip[...]
RequiredClipFields ==
    { "id", "title", "url", "embed_url", "thumbnail_url", "view_count",
      "duration", "created_at", "broadcaster_name", "broadcaster_id" }

AutomationScore(view_count) == Min(100, view_count \div 100)

AutomationClip(clip) ==
    [clip_id |-> clip.id, title |-> clip.title, url |-> clip.url,
     embed_url |-> clip.embed_url, thumbnail_url |-> clip.thumbnail_url,
     view_count |-> clip.view_count, duration |-> clip.duration,
     created_at |-> clip.created_at,
     broadcaster_name |-> clip.broadcaster_name,
     broadcaster_id |-> clip.broadcaster_id,
     game_name |-> Get(clip, "game_name", "Unknown"),
     game_id |-> Get(clip, "game_id", "None"),
     automation_score |-> AutomationScore(clip.view_count),
     download_ready |-> TRUE,
     processing_priority |-> IF clip.view_count > 5000 THEN "high" ELSE "medium",
     popularity_tag |-> IF clip.view_count > 10000 THEN "viral" ELSE "trending"]

\* the filtering loop over clips_data[from..]: the clips kept so far, or the
\* KeyError of the first kept clip that lacks a required key
RECURSIVE FilterClips(_, _, _, _)
FilterClips(clips_data, from, min_view_count, kept) ==
    IF from > Len(clips_data) THEN [raised |-> FALSE, clips |-> kept]
    ELSE LET clip == clips_data[from]
         IN  IF Get(clip, "view_count", 0) < min_view_count
             THEN FilterClips(clips_data, from + 1, min_view_count, kept)
             ELSE IF ~(RequiredClipFields \subseteq DOMAIN clip)
             THEN [raised |-> TRUE, clips |-> kept]
             ELSE FilterClips(clips_data, from + 1, min_view_count,
                              Append(kept, AutomationClip(clip)))

\* mutant of the sort: reverse=True left out, smaller scores first
RECURSIVE SortByScore_Ascending(_)
SortByScore_Ascending(clips) ==
    IF Len(clips) <= 1 THEN clips
    ELSE LET sorted == SortByScore_Ascending(SubSeq(clips, 1, Len(clips) - 1))
             last == clips[Len(clips)]
             before == { i \in 1..Len(sorted) :
                           sorted[i].automation_score <= last.automation_score }
             k == Cardinality(before)
         IN  SubSeq(sorted, 1, k) \o << last >> \o SubSeq(sorted, k + 1, Len(sorted))

\* list.sort(key=automation_score, reverse=True): stable, larger scores first
RECURSIVE SortByScore(_)
SortByScore(clips) ==
    IF Len(clips) <= 1 THEN clips
    ELSE LET sorted == SortByScore(SubSeq(clips, 1, Len(clips) - 1))
             last == clips[Len(clips)]
             before == { i \in 1..Len(sorted) :
                           sorted[i].automation_score >= last.automation_score }
             k == Cardinality(before)
         IN  SubSeq(sorted, 1, k) \o << last >> \o SubSeq(sorted, k + 1, Len(sorted))

ClipsEntry(self) ==
    IF self.args.streamer_username # "None"
    THEN Call(self, "/users")
    ELSE Call([self EXCEPT !.locals = [first |-> 20]], "/clips")

ClipsOnUsers(self, response) ==
    IF response.kind = "timeout" THEN Return(self, ClipsError("TimeoutException"))
    ELSE IF response.status_code # 200
    THEN Call([self EXCEPT !.locals = [first |-> 20]], "/clips")
    ELSE IF "data" \notin DOMAIN response.json THEN Return(self, ClipsError("KeyError"))
    ELSE IF Len(response.json.data) = 0
    THEN Call([self EXCEPT !.locals = [first |-> 20]], "/clips")
    ELSE IF "id" \notin DOMAIN response.json.data[1] THEN Return(self, ClipsError("KeyError"))
    ELSE Call([self EXCEPT !.locals = [first |-> 20,
                                       broadcaster_id |-> response.json.data[1].id]],
              "/clips")

ClipsOnClips(self, response) ==
    IF response.kind = "timeout" THEN Return(self, ClipsError("TimeoutException"))
    ELSE IF response.status_code # 200 THEN Return(self, ClipsError("Failed to get clips"))
    ELSE IF "data" \notin DOMAIN response.json THEN Return(self, ClipsError("KeyError"))
    ELSE LET clips_data == response.json.data
             filtered == FilterClips(clips_data, 1, self.args.min_view_count, << >>)
             automation_clips == SortByScore(filtered.clips)
         IN  IF filtered.raised THEN Return(self, ClipsError("KeyError"))
             ELSE Return(self, [clips |-> Take(automation_clips, 10),
                                total_found |-> Len(clips_data),
                                automation_ready |-> Len(automation_clips),
                                filters_applied |->
                                    [streamer |-> self.args.streamer_username,
                                     min_views |-> self.args.min_view_count],
                                n8n_workflow_ready |-> TRUE])

(***************************************************************************)
(* trend_monitoring_dashboard                                              *)
(***************************************************************************)
RequiredGameFields == { "name", "id", "box_art_url" }

RequiredStreamFields ==
    { "viewer_count", "user_name", "user_id", "game_name", "title", "thumbnail_url" }

TopGame(game, rank) ==
    [rank |-> rank, name |-> game.name, id |-> game.id,
     box_art_url |-> game.box_art_url,
     automation_priority |->
         IF rank <= 3 THEN "high" ELSE IF rank <= 7 THEN "medium" ELSE "low"]

TrendingStreamer(stream) ==
    LET viral_score == Min(100, stream.viewer_count \div 500)
    IN  [username |-> stream.user_name, user_id |-> stream.user_id,
         viewer_count |-> stream.viewer_count, game_name |-> stream.game_name,
         title |-> stream.title, thumbnail_url |-> stream.thumbnail_url,
         viral_score |-> viral_score,
         clip_potential |->
             IF viral_score >= 60 THEN "high"
             ELSE IF viral_score >= 30 THEN "medium"
             ELSE "low"]

AutomationRecommendations(top_games, trending_streamers) ==
    LET games == Take(top_games, 3)
        streamers == SelectSeq(Take(trending_streamers, 3),
                               LAMBDA s : s.viral_score >= 60)
    IN  [ i \in 1..Len(games) |->
            [type |-> "game_focus", priority |-> "high", id |-> games[i].id] ]
        \o [ i \in 1..Len(streamers) |->
            [type |-> "streamer_clips", priority |-> "urgent", id |-> streamers[i].user_id] ]

DashboardEntry(self) == Call(self, "/games/top")

DashboardOnGames(self, response) ==
    IF response.kind = "timeout" THEN Return(self, [error |-> "TimeoutException"])
    ELSE IF response.status_code # 200
    THEN Call([self EXCEPT !.locals = [top_games |-> << >>]], "/streams")
    ELSE IF "data" \notin DOMAIN response.json THEN Return(self, [error |-> "KeyError"])
    ELSE LET games_data == response.json.data
         IN  IF \E i \in DOMAIN games_data : ~(RequiredGameFields \subseteq DOMAIN games_data[i])
             THEN Return(self, [error |-> "KeyError"])
             ELSE Call([self EXCEPT !.locals =
                           [top_games |-> [ i \in 1..Len(games_data) |-> TopGame(games_data[i], i) ]]],
                       "/streams")

DashboardOnStreams(self, response) ==
    IF response.kind = "timeout" THEN Return(self, [error |-> "TimeoutException"])
    ELSE IF response.status_code = 200 /\ "data" \notin DOMAIN response.json
    THEN Return(self, [error |-> "KeyError"])
    ELSE LET streams_data == IF response.status_code = 200
                             THEN Take(response.json.data, 10) ELSE << >>
             top_games == self.locals.top_games
         IN  IF \E i \in DOMAIN streams_data :
                    ~(RequiredStreamFields \subseteq DOMAIN streams_data[i])
             THEN Return(self, [error |-> "KeyError"])
             ELSE LET trending_streamers ==
                          [ i \in 1..Len(streams_data) |-> TrendingStreamer(streams_data[i]) ]
                      hot == { i \in 1..Len(trending_streamers) :
                                   trending_streamers[i].viral_score >= 50 }
                  IN  Return(self,
                          [trending_games |-> top_games,
                           viral_streamers |-> trending_streamers,
                           automation_recommendations |->
                               AutomationRecommendations(top_games, trending_streamers),
                           market_analysis |->
                               [hot_categories |->
                                    [ i \in 1..Len(Take(top_games, 3)) |-> top_games[i].name ],
                                peak_viewing_hours |-> TRUE,
                                clip_creation_opportunity |->
                                    IF Cardinality(hot) >= 3 THEN "high" ELSE "medium"],
                           n8n_webhook_ready |-> TRUE])

(***************************************************************************)
(* The upstream API: the responses it may give on each endpoint.           *)
(***************************************************************************)
\* a success body without the key the handler reads
NoData == [pagination |-> "none"]

ViewCounts == { 0, 50000000, 50000001 }
FollowerCounts == { 0, 10000, 10001, 100000, 100001 }
ViewerCounts == { 0, 1000, 1001, 10000, 10001, 30000, 60000 }
ClipViewCounts == { 0, 999, 1000, 5001, 10001, 20000 }

User(view_count) == [id |-> "u1", display_name |-> "Streamer", view_count |-> view_count]

UserRecords ==
    { User(v) : v \in ViewCounts }
        \cup { [id |-> "u1", display_name |-> "Streamer"],
               [id |-> "u1", view_count |-> 0],
               [display_name |-> "Streamer", view_count |-> 0] }

Stream(viewer_count) ==
    [user_name |-> "Streamer", user_id |-> "u1", viewer_count |-> viewer_count,
     game_name |-> "Game", title |-> "Live", thumbnail_url |-> "t"]

StreamRecords ==
    { Stream(v) : v \in ViewerCounts }
        \cup { [user_name |-> "Streamer", user_id |-> "u1", game_name |-> "Game",
                title |-> "Live", thumbnail_url |-> "t"] }

Clip(view_count) ==
    [id |-> "c", title |-> "Clip", url |-> "u", embed_url |-> "e",
     thumbnail_url |-> "t", view_count |-> view_count, duration |-> 30,
     created_at |-> "d", broadcaster_name |-> "Streamer", broadcaster_id |-> "u1",
     game_id |-> "g"]

ClipRecords ==
    { Clip(v) : v \in ClipViewCounts }
        \cup { [title |-> "Clip", url |-> "u", embed_url |-> "e", thumbnail_url |-> "t",
                view_count |-> 20000, duration |-> 30, created_at |-> "d",
                broadcaster_name |-> "Streamer", broadcaster_id |-> "u1"],
               [id |-> "c", title |-> "Clip", url |-> "u", embed_url |-> "e",
                thumbnail_url |-> "t", duration |-> 30, created_at |-> "d",
                broadcaster_name |-> "Streamer", broadcaster_id |-> "u1"] }

Game(name) == [name |-> name, id |-> name, box_art_url |-> "b"]

\* "first": 20 clips at most; lists long enough for [:10] and for the
\* rank and hot-streamer bands
DataLists(records, long) ==
    { << >> } \cup { << r >> : r \in records }
        \cup { << r1, r2 >> : r1 \in records, r2 \in records }
        \cup long

SuccessResponses(lists) ==
    { Response(200, NoData) } \cup { Response(200, [data |-> d]) : d \in lists }

RichUpstream ==
    [ e \in Endpoints |->
        { Timeout, HttpError } \cup
        CASE e = "/oauth2/validate" ->
                 { Response(200, [client_id |-> "cid", scopes |-> << "clips:edit" >>,
                                  expires_in |-> 3600]),
                   Response(200, [login |-> "streamer"]) }
          [] e = "/users" ->
                 SuccessResponses({ << >> } \cup { << u >> : u \in UserRecords })
          [] e = "/streams" ->
                 SuccessResponses({ << >> } \cup { << r >> : r \in StreamRecords }
                     \cup { [ i \in 1..3 |-> Stream(60000) ],
                            [ i \in 1..11 |-> Stream(30000) ] })
          [] e = "/channels/followers" ->
                 { Response(200, [total |-> n]) : n \in FollowerCounts }
                     \cup { Response(200, NoData) }
          [] e = "/clips" ->
                 SuccessResponses(DataLists(ClipRecords,
                     { [ i \in 1..12 |-> Clip(IF i = 12 THEN 20000 ELSE 1000) ] }))
          [] e = "/games/top" ->
                 SuccessResponses(
                     { << >>, << Game("a") >>, << [id |-> "a", box_art_url |-> "b"] >>,
                       [ i \in 1..4 |-> Game("a") ], [ i \in 1..8 |-> Game("a") ] }) ]

(***************************************************************************)
(* Handler invocations.  A task runs from one upstream call to the next;   *)
(* the ctx.info / ctx.error notifications are not modelled, nor is the     *)
(* event-loop timestamp of the dashboard.                                  *)
(***************************************************************************)
HandlerNames ==
    { "get_twitch_token_info", "analyze_viral_potential",
      "get_automation_ready_clips", "trend_monitoring_dashboard" }

\* the arguments that decide a handler's control flow
ArgsOf(name) ==
    IF name = "get_automation_ready_clips"
    THEN [streamer_username : {"None", "streamer"}, min_view_count : {0, 1000}]
    ELSE { NoValue }

\* the handler runs from its first line to its first upstream call
Entry(name, args, has_token) ==
    CASE name = "get_twitch_token_info"      -> TokenInfoEntry(Start(name, args), has_token)
      [] name = "analyze_viral_potential"    -> AnalyzeEntry(Start(name, args))
      [] name = "get_automation_ready_clips" -> ClipsEntry(Start(name, args))
      [] name = "trend_monitoring_dashboard" -> DashboardEntry(Start(name, args))

Invocable(name) == name \in DOMAIN tools /\ tools[name].enabled

unchangedByHandlers ==
    << pc, argVars, envVars, route_maps, routerVars, normalizerVars, registryVars,
       serving, health >>

\* mutant of the invocation: the tool is disabled once it has been called
Invoke_OneShot(t) ==
    /\ pc = "serving"
    /\ task[t].at \in {"idle", "done"}
    /\ \E name \in HandlerNames :
          /\ Invocable(name)
          /\ tools' = [tools EXCEPT ![name].enabled = FALSE]
          /\ \E args \in ArgsOf(name) :
                task' = [task EXCEPT ![t] = Entry(name, args, access_token)]
    /\ UNCHANGED << pc, argVars, envVars, route_maps, routerVars, normalizerVars,
                    operations, resources, transformations, todo, transformed,
                    warnings, serving, health >>

\* a tool call reaches a Composed Handler of the registry
Invoke(t) ==
    /\ pc = "serving"
    /\ task[t].at \in {"idle", "done"}
    /\ \E name \in HandlerNames :
          /\ Invocable(name)
          /\ \E args \in ArgsOf(name) :
                task' = [task EXCEPT ![t] = Entry(name, args, access_token)]
    /\ UNCHANGED unchangedByHandlers

Suspended(t, name) == task[t].handler = name /\ task[t].at \in Endpoints

GetTokenInfo(t) ==
    /\ Suspended(t, "get_twitch_token_info")
    /\ \E response \in upstream[task[t].at] :
          task' = [task EXCEPT ![t] = TokenInfoOnValidate(Answered(@, response), response)]
    /\ UNCHANGED unchangedByHandlers

AnalyzeOn(self, response) ==
    CASE self.at = "/users"              -> AnalyzeOnUsers(self, response)
      [] self.at = "/streams"            -> AnalyzeOnStreams(self, response)
      [] self.at = "/channels/followers" -> AnalyzeOnFollowers(self, response)

AnalyzeViralPotential(t) ==
    /\ Suspended(t, "analyze_viral_potential")
    /\ \E response \in upstream[task[t].at] :
          task' = [task EXCEPT ![t] = AnalyzeOn(Answered(@, response), response)]
    /\ UNCHANGED unchangedByHandlers

GetAutomationReadyClips(t) ==
    /\ Suspended(t, "get_automation_ready_clips")
    /\ \E response \in upstream[task[t].at] :
          task' = [task EXCEPT ![t] =
                      IF @.at = "/users" THEN ClipsOnUsers(Answered(@, response), response)
                      ELSE ClipsOnClips(Answered(@, response), response)]
    /\ UNCHANGED unchangedByHandlers

TrendMonitoringDashboard(t) ==
    /\ Suspended(t, "trend_monitoring_dashboard")
    /\ \E response \in upstream[task[t].at] :
          task' = [task EXCEPT ![t] =
                      IF @.at = "/games/top" THEN DashboardOnGames(Answered(@, response), response)
                      ELSE DashboardOnStreams(Answered(@, response), response)]
    /\ UNCHANGED unchangedByHandlers

\* the task is cancelled while suspended: CancelledError is not an Exception,
\* so `except Exception` lets it through; the bare `except:` around the
\* followers call catches it like any other
Cancel(t) ==
    /\ task[t].at \in Endpoints
    /\ task' = [task EXCEPT ![t] =
                   IF @.handler = "analyze_viral_potential" /\ @.at = "/channels/followers"
                   THEN AnalyzeOnFollowers(Ended(@, "cancelled"), Timeout)
                   ELSE Raise(Ended(@, "cancelled"), "CancelledError")]
    /\ UNCHANGED unchangedByHandlers

(***************************************************************************)
(* SpecHandlers: one invocation at a time against the registry that        *)
(* create_server returns, the upstream answering in every way.             *)
(***************************************************************************)
InitHandlers ==
    /\ pc = "serving"
    /\ automation_mode \in BOOLEAN
    /\ include_tags = << >>
    /\ exclude_tags = << >>
    /\ enable_transformations = FALSE
    /\ operations = OperationIds
    /\ route_maps = CreateRouteMaps(include_tags, exclude_tags, automation_mode)
    /\ route = [method |-> "GET", path |-> <<"users">>, tags |-> {}]
    /\ rule_index = 0
    /\ mcp_type = DefaultType
    /\ openapi_spec = NoDocument
    /\ raw_spec = NoDocument
    /\ tools = AddCustomTools(GenerateTools(operations, route_maps), automation_mode)
    /\ resources = GeneratedAs(operations, route_maps, "RESOURCE")
    /\ transformations = << >>
    /\ todo = << >>
    /\ transformed = {}
    /\ warnings = {}
    /\ access_token \in BOOLEAN
    /\ upstream = RichUpstream
    /\ task = [ t \in {1} |-> Idle ]
    /\ entry = "main"
    /\ transport = "stdio"
    /\ serving = "stdio"
    /\ health = "none"

NextHandlers ==
    \/ \E t \in DOMAIN task : Invoke(t)
    \/ \E t \in DOMAIN task : GetTokenInfo(t)
    \/ \E t \in DOMAIN task : AnalyzeViralPotential(t)
    \/ \E t \in DOMAIN task : GetAutomationReadyClips(t)
    \/ \E t \in DOMAIN task : TrendMonitoringDashboard(t)
    \/ \E t \in DOMAIN task : Cancel(t)

SpecHandlers == InitHandlers /\ [][NextHandlers]_vars

(***************************************************************************)
(* Claims about the Composed Handlers                                      *)
(***************************************************************************)
Done(t) == task[t].at = "done"

OutcomesOf(t) == { task[t].calls[i].outcome : i \in DOMAIN task[t].calls }

Raised(t) == "raised" \in DOMAIN task[t].result
SoftError(t) == "error" \in DOMAIN task[t].result

\* C13 as claimed: an invocation one of whose upstream calls returned a
\* non-success status (and that was not cancelled) does not raise and
\* returns a result with an `error` field.
C13_NonSuccessIsSoftError ==
    \A t \in DOMAIN task :
        (Done(t) /\ "non_success" \in OutcomesOf(t) /\ "cancelled" \notin OutcomesOf(t))
            => (~Raised(t) /\ SoftError(t))

\* the str(e) of the exceptions raised by reading a key or an item that a
\* success body omits
ContractViolations == { "KeyError", "IndexError" }

\* C14 as claimed: a missing field of a success response is never turned
\* into an ordinary {error: ...} result; the invocation fails visibly.
C14_ContractViolationPropagates ==
    \A t \in DOMAIN task :
        (Done(t) /\ SoftError(t)) => task[t].result.error \notin ContractViolations

\* C15 as claimed: an invocation one of whose upstream calls timed out (and
\* that was not cancelled) returns a result with an `error` field, neither
\* raising nor returning a normal result, and the next invocation can begin.
C15_TimeoutIsSoftError ==
    \A t \in DOMAIN task :
        (Done(t) /\ "timeout" \in OutcomesOf(t) /\ "cancelled" \notin OutcomesOf(t))
            => (~Raised(t) /\ SoftError(t) /\ ENABLED Invoke(t))

Returned(t, name) ==
    /\ task[t].handler = name
    /\ Done(t)
    /\ ~Raised(t)
    /\ ~SoftError(t)

ContainsImmediately(recommendation) ==
    recommendation = "EXTREMELY HIGH - Create clips IMMEDIATELY!"

\* C16: when every upstream call succeeds and analyze_viral_potential
\* returns its scorecard, more than 100000 followers with a live stream of
\* more than 10000 viewers give viral_score >= 70 and a recommendation
\* containing "IMMEDIATELY"; at most 10000 followers and no live stream give
\* viral_score < 30.
C16_ViralScoreBands ==
    \A t \in DOMAIN task :
        (Returned(t, "analyze_viral_potential") /\ OutcomesOf(t) = {"success"}) =>
            LET result == task[t].result
            IN  /\ (result.follower_count > 100000 /\ result.is_live
                        /\ result.current_viewers > 10000)
                      => /\ result.viral_score >= 70
                         /\ ContainsImmediately(result.recommendation)
                /\ (result.follower_count <= 10000 /\ ~result.is_live)
                      => result.viral_score < 30

C16_Witness ==
    \E t \in DOMAIN task :
        /\ Returned(t, "analyze_viral_potential") /\ OutcomesOf(t) = {"success"}
        /\ task[t].result.follower_count > 100000
        /\ task[t].result.is_live
        /\ task[t].result.current_viewers > 10000
        /\ task[t].result.viral_score = 80

\* C17: get_twitch_token_info never raises on any answer of the upstream;
\* without a bearer credential it returns the "no token" error and issues no
\* upstream call; with one, it reports valid = TRUE exactly when the
\* validation call returned 200.
C17_TokenInfoNeverRaises ==
    \A t \in DOMAIN task :
        (task[t].handler = "get_twitch_token_info") =>
            /\ ~access_token => task[t].calls = << >>
            /\ (Done(t) /\ "cancelled" \notin OutcomesOf(t)) =>
                  /\ ~Raised(t)
                  /\ IF ~access_token
                     THEN task[t].result = [error |-> "No access token provided"]
                     ELSE /\ Len(task[t].calls) = 1
                          /\ task[t].calls[1].endpoint = "/oauth2/validate"
                          /\ task[t].result.valid = (task[t].calls[1].outcome = "success")

C17_Witness ==
    \E t \in DOMAIN task :
        /\ task[t].handler = "get_twitch_token_info"
        /\ Done(t)
        /\ access_token
        /\ task[t].calls[1].outcome = "non_success"
        /\ task[t].result.valid = FALSE

\* C22: whatever the upstream answers, a result of analyze_viral_potential
\* carries a viral_score in 0..100; a result with an `error` field carries
\* viral_score 0; in a scorecard automation_priority is "high" exactly when
\* the score is at least 50 (the two upper recommendation bands), "medium"
\* exactly when it is in 30..49 (the MEDIUM band) and "low" exactly when it
\* is below 30 (the LOW band).
C22_ViralScoreRangeAndPriority ==
    \A t \in DOMAIN task :
        (task[t].handler = "analyze_viral_potential" /\ Done(t) /\ ~Raised(t)) =>
            LET result == task[t].result
                score == result.viral_score
            IN  /\ score \in 0..100
                /\ SoftError(t) => score = 0
                /\ ~SoftError(t) =>
                      /\ result.automation_priority \in {"high", "medium", "low"}
                      /\ result.automation_priority = "high" <=> score >= 50
                      /\ result.automation_priority = "medium" <=> (30 <= score /\ score < 50)
                      /\ result.automation_priority = "low" <=> score < 30
                      /\ result.recommendation =
                            (IF score >= 70 THEN "EXTREMELY HIGH - Create clips IMMEDIATELY!"
                             ELSE IF score >= 50 THEN "HIGH - Great for viral content"
                             ELSE IF score >= 30 THEN "MEDIUM - Good potential"
                             ELSE "LOW - Consider other streamers")

C22_Witness ==
    \E t \in DOMAIN task :
        /\ Returned(t, "analyze_viral_potential")
        /\ task[t].result.viral_score = 50
        /\ task[t].result.automation_priority = "high"
        /\ task[t].result.recommendation = "HIGH - Great for viral content"

\* C23: the `clips` list of a result of get_automation_ready_clips has at
\* most 10 entries, is ordered by non-increasing automation_score, holds
\* only clips with view_count >= min_view_count, and every automation_score
\* is at most 100; in a ranked result its length is
\* min(10, automation_ready) and automation_ready <= total_found; in an
\* error result the list is empty.
C23_RankedClipList ==
    \A t \in DOMAIN task :
        (task[t].handler = "get_automation_ready_clips" /\ Done(t) /\ ~Raised(t)) =>
            LET result == task[t].result
                clips == result.clips
            IN  /\ Len(clips) <= 10
                /\ \A i \in 1..(Len(clips) - 1) :
                      clips[i].automation_score >= clips[i + 1].automation_score
                /\ \A i \in 1..Len(clips) :
                      /\ clips[i].view_count >= task[t].args.min_view_count
                      /\ clips[i].automation_score <= 100
                /\ SoftError(t) => clips = << >>
                /\ ~SoftError(t) =>
                      /\ Len(clips) = Min(10, result.automation_ready)
                      /\ result.automation_ready <= result.total_found

C23_Witness ==
    \E t \in DOMAIN task :
        /\ Returned(t, "get_automation_ready_clips")
        /\ task[t].args.min_view_count = 1000
        /\ task[t].result.total_found = 12
        /\ task[t].result.automation_ready = 12
        /\ Len(task[t].result.clips) = 10
        /\ task[t].result.clips[1].automation_score = 100
        /\ task[t].result.clips[2].automation_score = 10



(***************************************************************************)
(* Entry points.  "main" is mcp_twitch_server.main() run with command-line *)
(* arguments, "bare" is `python mcp_twitch_server.py` without arguments,   *)
(* "app" is app.main(), which reads $TRANSPORT (default http) and calls    *)
(* create_server() with its defaults.                                      *)
(***************************************************************************)
EntryPoints == { "main", "bare", "app" }
Transports == { "stdio", "http", "sse" }

ModeName(auto) == IF auto THEN "automation" ELSE "universal"

\* the arguments each entry point passes to create_server, and the
\* transport it was asked for; the tag lists are left out here
EntryArguments ==
    /\ entry \in EntryPoints
    /\ transport \in Transports
    /\ automation_mode \in BOOLEAN
    /\ enable_transformations \in BOOLEAN
    /\ entry \in {"bare", "app"} => (~automation_mode /\ enable_transformations)
    /\ entry = "bare" => transport = "stdio"
    /\ include_tags = << >>
    /\ exclude_tags = << >>

InitEntry ==
    /\ pc = "start"
    /\ EntryArguments
    /\ operations = OperationIds
    /\ route_maps = << >>
    /\ route = [method |-> "GET", path |-> <<"users">>, tags |-> {}]
    /\ rule_index = 0
    /\ mcp_type = DefaultType
    /\ openapi_spec = NoDocument
    /\ raw_spec = NoDocument
    /\ tools = << >>
    /\ resources = {}
    /\ transformations = << >>
    /\ todo = << >>
    /\ transformed = {}
    /\ warnings = {}
    /\ access_token \in BOOLEAN
    /\ upstream = << >>
    /\ task = << >>
    /\ serving = "none"
    /\ health = "none"

unchangedByEntry ==
    << argVars, envVars, route_maps, routerVars, normalizerVars, registryVars, task >>

\* main: if args.transport in ['http', 'sse']: @mcp.server.get("/health")
MainHealthCheck ==
    /\ pc = "ready"
    /\ entry = "main"
    /\ health' = IF transport \in {"http", "sse"} THEN ModeName(automation_mode) ELSE health
    /\ pc' = "run"
    /\ UNCHANGED << unchangedByEntry, serving >>

\* main: await mcp.run_async(...) on args.transport
MainRun ==
    /\ pc = "run"
    /\ serving' = transport
    /\ pc' = "serving"
    /\ UNCHANGED << unchangedByEntry, health >>

\* app.main: http if transport.lower() == 'http', stdio otherwise
AppRun ==
    /\ pc = "ready"
    /\ entry = "app"
    /\ serving' = IF transport = "http" THEN "http" ELSE "stdio"
    /\ pc' = "serving"
    /\ UNCHANGED << unchangedByEntry, health >>

\* __main__ without arguments: the script ends after create_server
BareExit ==
    /\ pc = "ready"
    /\ entry = "bare"
    /\ pc' = "exited"
    /\ UNCHANGED << unchangedByEntry, serving, health >>

NextEntry ==
    \/ Next
    \/ MainHealthCheck
    \/ MainRun
    \/ AppRun
    \/ BareExit

SpecEntry == InitEntry /\ [][NextEntry]_vars

\* C18 as claimed: whichever entry point started the server, when it serves
\* on http or sse the /health endpoint has been registered and reports the
\* active mode.
C18_HealthRegisteredOnNetworkTransport ==
    (pc = "serving" /\ serving \in {"http", "sse"})
        => health = ModeName(automation_mode)

\* C19 as claimed: whichever entry point and transport were selected, the
\* process ends up serving on exactly the selected transport; it does not
\* serve on another one and does not exit without serving.
C19_SelectedTransportServed ==
    /\ pc = "serving" => serving = transport
    /\ pc # "exited"

(***************************************************************************)
(* SpecServer: an entry point builds the registry and serves; handler      *)
(* invocations then run concurrently, interleaved at their upstream calls. *)
(***************************************************************************)
\* concurrent handler invocations
MaxTasks == 2

\* an upstream that answers well, or times out on the first call of a handler
CoarseOk(e) ==
    CASE e = "/oauth2/validate" ->
             Response(200, [client_id |-> "cid", scopes |-> << "clips:edit" >>,
                            expires_in |-> 3600])
      [] e = "/users" -> Response(200, [data |-> << User(0) >>])
      [] e = "/streams" -> Response(200, [data |-> << Stream(60000) >>])
      [] e = "/channels/followers" -> Response(200, [total |-> 100001])
      [] e = "/clips" -> Response(200, [data |-> << Clip(20000) >>])
      [] e = "/games/top" -> Response(200, [data |-> << Game("a") >>])

CoarseUpstream ==
    [ e \in Endpoints |->
        IF e \in { "/oauth2/validate", "/users", "/games/top" }
        THEN { Timeout, CoarseOk(e) }
        ELSE { CoarseOk(e) } ]

InitServer ==
    /\ pc = "start"
    /\ EntryArguments
    /\ entry # "bare" => transport = "http"
    /\ operations = OperationIds
    /\ route_maps = << >>
    /\ route = [method |-> "GET", path |-> <<"users">>, tags |-> {}]
    /\ rule_index = 0
    /\ mcp_type = DefaultType
    /\ openapi_spec = NoDocument
    /\ raw_spec = NoDocument
    /\ tools = << >>
    /\ resources = {}
    /\ transformations = << >>
    /\ todo = << >>
    /\ transformed = {}
    /\ warnings = {}
    /\ access_token = TRUE
    /\ upstream = CoarseUpstream
    /\ task = [ t \in 1..MaxTasks |-> Idle ]
    /\ serving = "none"
    /\ health = "none"

NextServer ==
    \/ NextEntry
    \/ NextHandlers

SpecServer == InitServer /\ [][NextServer]_vars

\* create_server has registered the last Composed Handler
Built == pc \in {"ready", "run", "serving", "exited"}

\* C20: once the last Composed Handler is registered no step changes the
\* registry, whatever handler invocations run, fail, time out or are
\* cancelled; a step that writes the registry finds no invocation begun, and
\* invocations begin only when the registry is built.
C20_RegistryImmutableAfterStartup ==
    [][ /\ Built => (tools' = tools /\ resources' = resources)
        /\ (tools' # tools) => (\A t \in DOMAIN task : task[t] = Idle)
        /\ (task' # task) => (Built /\ tools' = tools) ]_vars

C20_Witness ==
    /\ pc = "serving"
    /\ \E t1, t2 \in DOMAIN task :
          /\ Done(t1) /\ Raised(t1)
          /\ Done(t2) /\ SoftError(t2) /\ "timeout" \in OutcomesOf(t2)
    /\ \E n \in DOMAIN tools : ~tools[n].enabled

=============================================================================
